---------------------------- MODULE Spec2Model ----------------------------
(***************************************************************************)
(* Model of the sales-forecast API: the request dispatcher of              *)
(* app/routes.py (validation, synchronous run, background callback unit)   *)
(* and the preparation pipeline of app/services (column detection, schema  *)
(* normalisation, anchored aggregation, sanitizing, forecasting, output    *)
(* normalisation).                                                         *)
(*                                                                         *)
(* Conventions.                                                            *)
(*  - A timestamp is a day number; day 0 is 2024-01-01, a Monday, so       *)
(*    d % 7 = 0 exactly on Mondays.  The two resampling rules have bin     *)
(*    edges on day boundaries, so the time of day never decides a bucket.  *)
(*  - A series is a sequence of [ds, y] with y an integer.  The quartiles   *)
(*    of pandas' linear interpolation are multiples of 1/4 and the IQR     *)
(*    bounds multiples of 1/8 of the input unit, so a sanitizing pass      *)
(*    returns y in eighths of its input's unit (mult = 8) and the          *)
(*    arithmetic stays exact.                                              *)
(*  - The forecasting engine (Prophet) is outside the repository: the      *)
(*    values it predicts are inputs drawn from EngineRows.                 *)
(***************************************************************************)
EXTENDS Integers, Sequences, FiniteSets, TLC

(***************************************************************************)
(* Bounds of the model.                                                    *)
(***************************************************************************)
\* rows of a request's data list in the pipeline specification
MaxRows == 2
\* normalized points in the preparation specification
MaxPoints == 3
\* largest prediction_period drawn
MaxPeriod == 2
\* requests handled in one behaviour of the dispatcher specification
MaxRequests == 2
\* largest value of the wall clock, in seconds
MaxClock == 2

(***************************************************************************)
(* Calendar (proleptic Gregorian, days counted from 2024-01-01).           *)
(***************************************************************************)
IsLeap(year) == (year % 4 = 0) /\ ((year % 100 # 0) \/ (year % 400 = 0))

\* days of a common year before each month
CumDays == <<0, 31, 59, 90, 120, 151, 181, 212, 243, 273, 304, 334>>

\* leap years in [2024, year)
LeapsBefore(year) ==
    (((year - 1) \div 4) - 505) - (((year - 1) \div 100) - 20)
        + (((year - 1) \div 400) - 5)

YearStart(year) == 365 * (year - 2024) + LeapsBefore(year)

\* first day of month m, m counted from 2024-01 = 0
MonthStart(m) ==
    LET moy == m % 12
        year == 2024 + (m \div 12)
    IN  YearStart(year) + CumDays[moy + 1]
            + (IF moy >= 2 /\ IsLeap(year) THEN 1 ELSE 0)

\* index of the month that holds day d >= 0
MonthIndex(d) ==
    CHOOSE m \in (d \div 31)..((d \div 28) + 1) :
        MonthStart(m) <= d /\ d < MonthStart(m + 1)

\* [y, m, d] of day number d: the ISO calendar date
CivilDate(d) ==
    LET m == MonthIndex(d)
    IN  [y |-> 2024 + (m \div 12), m |-> (m % 12) + 1, d |-> d - MonthStart(m) + 1]

IsMonday(d) == d % 7 = 0

IsMonthStart(d) == MonthStart(MonthIndex(d)) = d

(***************************************************************************)
(* Sequence helpers.                                                       *)
(***************************************************************************)
RECURSIVE SumY(_)
SumY(rows) == IF rows = << >> THEN 0 ELSE Head(rows).y + SumY(Tail(rows))

RECURSIVE Insert(_, _)
Insert(sorted, r) ==
    IF sorted = << >> THEN <<r>>
    ELSE IF r.ds >= sorted[Len(sorted)].ds THEN Append(sorted, r)
    ELSE IF r.ds < Head(sorted).ds THEN <<r>> \o sorted
         ELSE <<Head(sorted)>> \o Insert(Tail(sorted), r)

\* sort_values("ds"): ascending by ds; rows with equal ds keep their order
\* (the order of ties never reaches a sum)
RECURSIVE SortByDs(_)
SortByDs(rows) ==
    IF rows = << >> THEN << >>
    ELSE Insert(SortByDs(SubSeq(rows, 1, Len(rows) - 1)), rows[Len(rows)])

MinDs(rows) == CHOOSE d \in {rows[i].ds : i \in 1..Len(rows)} :
                   \A j \in 1..Len(rows) : d <= rows[j].ds

MaxDs(rows) == CHOOSE d \in {rows[i].ds : i \in 1..Len(rows)} :
                   \A j \in 1..Len(rows) : d >= rows[j].ds

(***************************************************************************)
(* Anchor rules (pandas offset aliases).  "W-MON" is the weekly offset     *)
(* anchored on Monday, "MS" the month-start offset; their anchor points    *)
(* are the Mondays and the first days of the months.                       *)
(***************************************************************************)
OnAnchor(rule, d) == IF rule = "MS" THEN IsMonthStart(d) ELSE IsMonday(d)

\* the first anchor point at or after d (date_range rolls its start forward)
CeilAnchor(rule, d) ==
    IF rule = "MS"
    THEN (IF IsMonthStart(d) THEN d ELSE MonthStart(MonthIndex(d) + 1))
    ELSE d + ((7 - (d % 7)) % 7)

\* the last anchor point at or before d
FloorAnchor(rule, d) ==
    IF rule = "MS" THEN MonthStart(MonthIndex(d)) ELSE d - (d % 7)

\* the first anchor point strictly after d
NextAnchor(rule, d) == CeilAnchor(rule, d + 1)

\* pd.date_range(start, end, freq=rule): the anchor points in [start, end]
RECURSIVE GridFrom(_, _, _)
GridFrom(rule, g, end) ==
    IF g > end THEN << >> ELSE <<g>> \o GridFrom(rule, NextAnchor(rule, g), end)

DateRange(rule, start, end) == GridFrom(rule, CeilAnchor(rule, start), end)

\* pd.date_range(start, periods=n, freq=rule): the first n anchor points >= start
RECURSIVE GridCount(_, _, _)
GridCount(rule, g, n) ==
    IF n = 0 THEN << >> ELSE <<g>> \o GridCount(rule, NextAnchor(rule, g), n - 1)

DateRangePeriods(rule, start, n) == GridCount(rule, CeilAnchor(rule, start), n)

\* The label of the resampling bin that holds day d.  pandas resamples the
\* week offsets with closed = label = "right" (a bin ends on its anchor day
\* and is labelled by it) and "MS" with closed = label = "left".
BucketLabel(rule, d) ==
    IF rule = "MS" THEN FloorAnchor(rule, d) ELSE CeilAnchor(rule, d)

(***************************************************************************)
(* Values of the request rows.  A cell is a date-like string (its day),    *)
(* a string that is no date, a number, or null.                            *)
(***************************************************************************)
DateCell(d) == [k |-> "date", v |-> d]
StrCell == [k |-> "str", v |-> 0]
NumCell(n) == [k |-> "num", v |-> n]
NanCell == [k |-> "nan", v |-> 0]

\* 1970-01-01, where pd.to_datetime puts a small integer (nanoseconds)
UnixEpochDay == 0 - 19723

\* exceptions: the class that decides the except clause, and what raised it
NoError == [exc |-> "none", msg |-> "none"]
Raise(exc, msg) == [exc |-> exc, msg |-> msg]

\* str.lower on the column names and request keys of the model
Lower(s) ==
    CASE s = "TARIH" -> "tarih"
      [] s = "Sales" -> "sales"
      [] s = "WebHook" -> "webhook"
      [] s = "ASYNC" -> "async"
      [] OTHER -> s

DATE_CANDIDATES == <<"tarih", "date", "gun", "day", "zaman", "time">>

TARGET_CANDIDATES ==
    <<"satis", "sales", "miktar", "quantity", "adet", "amount", "value",
      "satis_miktari">>

\* pd.DataFrame.from_records(records).empty
DfEmpty(df) == Len(df.columns) = 0 \/ Len(df.rows) = 0

\* lower_map[alias]: a later column of the same lower-cased name wins
LowerMapGet(columns, alias) ==
    LET hits == {i \in 1..Len(columns) : Lower(columns[i]) = alias}
    IN  columns[CHOOSE i \in hits : \A j \in hits : j <= i]

\* pd.to_datetime(df[c]) returns: every cell of column i parses
ColumnParses(df, i) == \A r \in 1..Len(df.rows) : df.rows[r][i].k # "str"

\* detect_columns.find: the first alias, in priority order, that names a
\* column; for the date, else the first column that parses as timestamps
Find(df, candidates, is_date) ==
    LET lowered == {Lower(df.columns[i]) : i \in 1..Len(df.columns)}
        aliases == {a \in 1..Len(candidates) : candidates[a] \in lowered}
        parsing == {i \in 1..Len(df.columns) : ColumnParses(df, i)}
    IN  IF aliases # {}
        THEN [found |-> TRUE,
              col |-> LowerMapGet(df.columns,
                         candidates[CHOOSE a \in aliases : \A b \in aliases : a <= b])]
        ELSE IF is_date /\ parsing # {}
        THEN [found |-> TRUE,
              col |-> df.columns[CHOOSE i \in parsing : \A j \in parsing : i <= j]]
        ELSE [found |-> FALSE, col |-> ""]

detect_columns(df) ==
    LET date_col == Find(df, DATE_CANDIDATES, TRUE)
        target_col == Find(df, TARGET_CANDIDATES, FALSE)
    IN  IF ~date_col.found \/ ~target_col.found
        THEN [err |-> Raise("ValueError", "column_not_found"), date |-> "", target |-> ""]
        ELSE [err |-> NoError, date |-> date_col.col, target |-> target_col.col]

ColIndex(columns, name) == CHOOSE i \in 1..Len(columns) : columns[i] = name

\* pd.to_datetime(cell, errors="coerce"); nat marks NaT
ToDatetime(cell) ==
    CASE cell.k = "date" -> [nat |-> FALSE, day |-> cell.v]
      [] cell.k = "num" -> [nat |-> FALSE, day |-> UnixEpochDay]
      [] OTHER -> [nat |-> TRUE, day |-> 0]

RECURSIVE NormRows(_, _, _)
NormRows(rows, di, ti) ==
    IF rows = << >> THEN << >>
    ELSE LET ds == ToDatetime(Head(rows)[di])
             y == Head(rows)[ti]
             rest == NormRows(Tail(rows), di, ti)
         IN  IF ds.nat \/ y.k = "nan" THEN rest
             ELSE <<[ds |-> ds.day, y |-> y.v]>> \o rest

\* normalize_schema: rename to ds / y, coerce ds, drop the rows with a
\* missing ds or y, sort by ds.  Renaming one column to both names leaves
\* no ds column (the dict keeps the later key), and out["ds"] raises.
\* The feature columns it keeps are dropped again by the aggregation.
normalize_schema(df, mapping) ==
    IF mapping.date = mapping.target
    THEN [err |-> Raise("KeyError", "ds"), rows |-> << >>]
    ELSE [err |-> NoError,
          rows |-> SortByDs(NormRows(df.rows, ColIndex(df.columns, mapping.date),
                                     ColIndex(df.columns, mapping.target)))]

RECURSIVE SumBucket(_, _, _)
SumBucket(rows, rule, g) ==
    IF rows = << >> THEN 0
    ELSE (IF BucketLabel(rule, Head(rows).ds) = g THEN Head(rows).y ELSE 0)
             + SumBucket(Tail(rows), rule, g)

\* variant: only the periods that have rows, as a group-by would give
Resample_nonempty(rows, rule) ==
    IF rows = << >> THEN << >>
    ELSE LET labels == DateRange(rule, BucketLabel(rule, MinDs(rows)),
                                 BucketLabel(rule, MaxDs(rows)))
             kept == SelectSeq(labels,
                         LAMBDA g : \E j \in 1..Len(rows) : BucketLabel(rule, rows[j].ds) = g)
         IN  [i \in 1..Len(kept) |->
                 [ds |-> kept[i], y |-> SumBucket(rows, rule, kept[i])]]

\* resample(rule).sum(): one bin per anchor period from the first row's to
\* the last row's, a bin without rows summing to 0
Resample(rows, rule) ==
    IF rows = << >> THEN << >>
    ELSE LET labels == DateRange(rule, BucketLabel(rule, MinDs(rows)),
                                 BucketLabel(rule, MaxDs(rows)))
         IN  [i \in 1..Len(labels) |->
                 [ds |-> labels[i], y |-> SumBucket(rows, rule, labels[i])]]

\* variant: the two rules taken the wrong way round
aggregate_time_series_swapped(rows, level, weekly_rule, monthly_rule) ==
    IF level \notin {"weekly", "monthly"}
    THEN [err |-> Raise("ValueError", "invalid_level"), rows |-> << >>]
    ELSE LET rule == IF level = "weekly" THEN monthly_rule ELSE weekly_rule
         IN  [err |-> NoError, rows |-> SortByDs(Resample(rows, rule))]

aggregate_time_series(rows, level, weekly_rule, monthly_rule) ==
    IF level \notin {"weekly", "monthly"}
    THEN [err |-> Raise("ValueError", "invalid_level"), rows |-> << >>]
    ELSE LET rule == IF level = "weekly" THEN weekly_rule ELSE monthly_rule
         IN  [err |-> NoError, rows |-> SortByDs(Resample(rows, rule))]

(***************************************************************************)
(* Sanitizer.                                                              *)
(***************************************************************************)
\* the k-th smallest (k from 0) of a non-empty sequence of integers
KthSmallest(vals, k) ==
    CHOOSE v \in {vals[i] : i \in 1..Len(vals)} :
        /\ Cardinality({i \in 1..Len(vals) : vals[i] < v}) <= k
        /\ Cardinality({i \in 1..Len(vals) : vals[i] <= v}) > k

\* 4 * Series.quantile(q / 4), linear interpolation between the order
\* statistics around position (n - 1) * q / 4
Quantile4(vals, q) ==
    LET pos4 == (Len(vals) - 1) * q
        lo == pos4 \div 4
        fr == pos4 % 4
        a == KthSmallest(vals, lo)
    IN  IF fr = 0 THEN 4 * a
        ELSE 4 * a + fr * (KthSmallest(vals, lo + 1) - a)

\* pd.infer_freq on at least three strictly increasing timestamps, for the
\* timestamps that reach the Sanitizer (they lie on one of the two anchor
\* grids): "MS" for consecutive month starts, "W-MON" for consecutive
\* Mondays, "" (None) otherwise
InferFreq(rows) ==
    LET n == Len(rows)
    IN  IF (\A i \in 1..n : IsMonthStart(rows[i].ds))
           /\ (\A i \in 1..(n - 1) :
                  MonthIndex(rows[i + 1].ds) = MonthIndex(rows[i].ds) + 1)
        THEN "MS"
        ELSE IF (\A i \in 1..n : IsMonday(rows[i].ds))
                /\ (\A i \in 1..(n - 1) : rows[i + 1].ds - rows[i].ds = 7)
        THEN "W-MON"
        ELSE ""

\* _infer_by_gap: the median gap in whole days decides
InferByGap(rows) ==
    LET n == Len(rows) - 1
        deltas == [i \in 1..n |-> rows[i + 1].ds - rows[i].ds]
        median_days ==
            IF n % 2 = 1 THEN KthSmallest(deltas, n \div 2)
            ELSE (KthSmallest(deltas, (n \div 2) - 1)
                    + KthSmallest(deltas, n \div 2)) \div 2
    IN  IF n = 0 THEN "W-MON"
        ELSE IF median_days >= 25 THEN "MS"
        ELSE IF median_days >= 6 THEN "W-MON"
        ELSE "W-MON"

\* set_index("ds").reindex(full_index): the row of each grid point, or NaN
Reindex(rows, full_index) ==
    [i \in 1..Len(full_index) |->
        LET hits == {j \in 1..Len(rows) : rows[j].ds = full_index[i]}
        IN  IF hits = {} THEN [ds |-> full_index[i], y |-> 0, nan |-> TRUE]
            ELSE [ds |-> full_index[i], y |-> rows[CHOOSE j \in hits : TRUE].y,
                  nan |-> FALSE]]

\* ffill: a NaN takes the last value before it
Ffill(rows) ==
    [i \in 1..Len(rows) |->
        LET known == {j \in 1..i : ~rows[j].nan}
        IN  IF ~rows[i].nan \/ known = {} THEN rows[i]
            ELSE [rows[i] EXCEPT
                     !.y = rows[CHOOSE j \in known : \A k \in known : k <= j].y,
                     !.nan = FALSE]]

\* bfill: a NaN still left takes the first value after it
Bfill(rows) ==
    [i \in 1..Len(rows) |->
        LET known == {j \in i..Len(rows) : ~rows[j].nan}
        IN  IF ~rows[i].nan \/ known = {} THEN rows[i]
            ELSE [rows[i] EXCEPT
                     !.y = rows[CHOOSE j \in known : \A k \in known : j <= k].y,
                     !.nan = FALSE]]

Clip(v, lower, upper) == IF v < lower THEN lower ELSE IF v > upper THEN upper ELSE v

\* variant: fences at half an iqr, y.clip(q1 - 0.5 * iqr, q3 + 0.5 * iqr)
IqrClip_narrow(rows) ==
    LET vals == [i \in 1..Len(rows) |-> rows[i].y]
        q1 == Quantile4(vals, 1)
        q3 == Quantile4(vals, 3)
        iqr == q3 - q1
        lower == 2 * q1 - iqr
        upper == 2 * q3 + iqr
    IN  [i \in 1..Len(rows) |->
            [ds |-> rows[i].ds, y |-> Clip(8 * rows[i].y, lower, upper)]]

\* y.clip(q1 - 1.5 * iqr, q3 + 1.5 * iqr), in eighths of the input unit
IqrClip(rows) ==
    LET vals == [i \in 1..Len(rows) |-> rows[i].y]
        q1 == Quantile4(vals, 1)
        q3 == Quantile4(vals, 3)
        iqr == q3 - q1
        lower == 2 * q1 - 3 * iqr
        upper == 2 * q3 + 3 * iqr
    IN  [i \in 1..Len(rows) |->
            [ds |-> rows[i].ds, y |-> Clip(8 * rows[i].y, lower, upper)]]

\* sanitize_outliers_and_missing.  mult is the factor by which the unit of y
\* was refined: 1 when the frame is returned as it came, 8 after clipping.
\* pd.infer_freq raises ValueError on fewer than three timestamps.
sanitize_outliers_and_missing(rows) ==
    IF Len(rows) < 2 THEN [err |-> NoError, rows |-> rows, mult |-> 1]
    ELSE IF Len(rows) < 3
    THEN [err |-> Raise("ValueError", "need_3_dates"), rows |-> << >>, mult |-> 1]
    ELSE LET direct == InferFreq(rows)
             inferred == IF direct = "" THEN InferByGap(rows) ELSE direct
             full_index == DateRange(inferred, MinDs(rows), MaxDs(rows))
             filled == Bfill(Ffill(Reindex(rows, full_index)))
         IN  [err |-> NoError, rows |-> IqrClip(filled), mult |-> 8]

(***************************************************************************)
(* Forecaster.  eng is what the forecasting engine does in this run:       *)
(* eng.fails when a fit or predict call raises, eng.rows[i] the values it  *)
(* predicts for the i-th future period.                                    *)
(***************************************************************************)
Max2(a, b) == IF a >= b THEN a ELSE b
Min2(a, b) == IF a <= b THEN a ELSE b

\* variant: the weekly rule whatever the frequency
FreqRule_weekly(frequency, weekly_rule, monthly_rule) == weekly_rule

\* EnsembleForecaster._freq_rule
FreqRule(frequency, weekly_rule, monthly_rule) ==
    IF frequency = "monthly" THEN monthly_rule ELSE weekly_rule

\* Prophet.make_future_dataframe(periods, freq, include_history=False):
\* date_range(start=last, periods=periods + 1), the dates after last, the
\* first `periods` of them
MakeFuture(rows, rule, periods) ==
    LET last_date == MaxDs(rows)
        dates == DateRangePeriods(rule, last_date, periods + 1)
        later == IF dates[1] > last_date THEN dates ELSE Tail(dates)
    IN  SubSeq(later, 1, Min2(periods, Len(later)))

\* n_val of the backtest
NVal(horizon, n) == Max2(0, Min2(Max2(4, horizon), Max2(2, n \div 3)))

\* the backtest fills the metrics when it runs and its forecast meets the
\* held-out tail on at least two timestamps
BacktestMetrics(rows, rule, horizon) ==
    LET n == Len(rows)
        n_val == NVal(horizon, n)
        train == SubSeq(rows, 1, n - n_val)
        bt_future == MakeFuture(train, rule, n_val)
        merged == {i \in (n - n_val + 1)..n :
                      \E j \in 1..Len(bt_future) : bt_future[j] = rows[i].ds}
    IN  n >= n_val + 5 /\ n_val >= 2 /\ Cardinality(merged) >= 2

fit_predict(f, rows, eng) ==
    IF eng.fails
    THEN [err |-> Raise("Exception", "engine"), columns |-> {}, rows |-> << >>,
          model_info |-> [algorithm |-> "", metrics |-> FALSE, backtest_points |-> 0],
          data_summary |-> [input_rows |-> 0, date_range |-> << >>]]
    ELSE LET rule == FreqRule(f.frequency, f.weekly_rule, f.monthly_rule)
             future == MakeFuture(rows, rule, f.horizon)
             out == [i \in 1..Len(future) |->
                        IF f.return_confidence
                        THEN [ds |-> future[i], yhat |-> eng.rows[i].yhat,
                              yhat_lower |-> eng.rows[i].yhat_lower,
                              yhat_upper |-> eng.rows[i].yhat_upper]
                        ELSE [ds |-> future[i], yhat |-> eng.rows[i].yhat]]
         IN  [err |-> NoError,
              columns |-> IF f.return_confidence
                          THEN {"ds", "yhat", "yhat_lower", "yhat_upper"}
                          ELSE {"ds", "yhat"},
              rows |-> SortByDs(out),
              model_info |-> [algorithm |-> "Ensemble (Prophet)",
                              metrics |-> BacktestMetrics(rows, rule, f.horizon),
                              backtest_points |-> NVal(f.horizon, Len(rows))],
              data_summary |-> [input_rows |-> Len(rows),
                                date_range |-> <<CivilDate(MinDs(rows)),
                                                 CivilDate(MaxDs(rows))>>]]

(***************************************************************************)
(* Pipeline orchestrator.                                                  *)
(***************************************************************************)
build_pipeline(prediction_frequency, aggregation_level, prediction_period, return_confidence, min_data_points, non_negative) ==
    [prediction_frequency |-> prediction_frequency,
     aggregation_level |-> aggregation_level,
     prediction_period |-> prediction_period,
     return_confidence |-> return_confidence,
     min_data_points |-> min_data_points,
     weekly_rule |-> "W-MON",
     monthly_rule |-> "MS",
     non_negative |-> non_negative]

\* variant: no flooring
Floor0_off(non_negative, v) == v

\* max(0.0, v) when non-negative mode is on
Floor0(non_negative, v) == IF non_negative THEN Max2(0, v) ELSE v

\* variant: the two bounds written to each other's key
PredictionItem_swapped(p, columns, row) ==
    LET base == [date |-> CivilDate(row.ds),
                 predicted_value |-> Floor0(p.non_negative, row.yhat)]
    IN  IF p.return_confidence /\ {"yhat_lower", "yhat_upper"} \subseteq columns
        THEN [date |-> base.date, predicted_value |-> base.predicted_value,
              confidence_lower |-> Floor0(p.non_negative, row.yhat_upper),
              confidence_upper |-> Floor0(p.non_negative, row.yhat_lower)]
        ELSE base

\* one entry of "predictions": ISO date, floored value, and the bounds when
\* they were asked for and the forecast frame has both columns
PredictionItem(p, columns, row) ==
    LET base == [date |-> CivilDate(row.ds),
                 predicted_value |-> Floor0(p.non_negative, row.yhat)]
    IN  IF p.return_confidence /\ {"yhat_lower", "yhat_upper"} \subseteq columns
        THEN [date |-> base.date, predicted_value |-> base.predicted_value,
              confidence_lower |-> Floor0(p.non_negative, row.yhat_lower),
              confidence_upper |-> Floor0(p.non_negative, row.yhat_upper)]
        ELSE base

\* the label of a lone primary model
SquashAlgorithm(algo) == IF algo = "Ensemble (Prophet)" THEN "Prophet" ELSE algo

\* variant: a series one point short passes
HasMinPoints_short(p, df_clean) == Len(df_clean) + 1 >= p.min_data_points

\* step 4 of run: the clean series has the configured minimum of points
HasMinPoints(p, df_clean) == Len(df_clean) >= p.min_data_points

\* what a run leaves behind when it stops with err before the named stage
Stopped(err, norm, agg, clean, mult) ==
    [err |-> err, norm |-> norm, agg |-> agg, clean |-> clean, mult |-> mult,
     engine_called |-> FALSE, forecast |-> << >>, result |-> [success |-> FALSE]]

\* steps 1-4 of PredictionPipeline.run: detection, normalisation,
\* aggregation, sanitizing and the minimum-points check
Prepare(p, df) ==
    IF DfEmpty(df)
    THEN Stopped(Raise("ValueError", "empty"), << >>, << >>, << >>, 1)
    ELSE LET detected == detect_columns(df)
    IN  IF detected.err # NoError THEN Stopped(detected.err, << >>, << >>, << >>, 1)
    ELSE LET df_norm == normalize_schema(df, detected)
    IN  IF df_norm.err # NoError THEN Stopped(df_norm.err, << >>, << >>, << >>, 1)
    ELSE LET df_agg == aggregate_time_series(df_norm.rows, p.aggregation_level,
                                             p.weekly_rule, p.monthly_rule)
    IN  IF df_agg.err # NoError THEN Stopped(df_agg.err, df_norm.rows, << >>, << >>, 1)
    ELSE LET df_clean == sanitize_outliers_and_missing(df_agg.rows)
    IN  IF df_clean.err # NoError
        THEN Stopped(df_clean.err, df_norm.rows, df_agg.rows, << >>, 1)
    ELSE IF ~HasMinPoints(p, df_clean.rows)
        THEN Stopped(Raise("ValueError", "min_points"), df_norm.rows, df_agg.rows,
                     df_clean.rows, df_clean.mult)
    ELSE Stopped(NoError, df_norm.rows, df_agg.rows, df_clean.rows, df_clean.mult)

\* steps 5-8: the Forecaster and the normalisation of its output
Forecast(p, prep, eng) ==
    LET f == [frequency |-> p.prediction_frequency, horizon |-> p.prediction_period,
              return_confidence |-> p.return_confidence,
              weekly_rule |-> p.weekly_rule, monthly_rule |-> p.monthly_rule]
        fc == fit_predict(f, prep.clean, eng)
        sorted == SortByDs(fc.rows)
    IN  IF fc.err # NoError
        THEN [prep EXCEPT !.err = fc.err, !.engine_called = TRUE]
        ELSE [prep EXCEPT
                 !.engine_called = TRUE,
                 !.forecast = fc.rows,
                 !.result =
                     [success |-> TRUE,
                      data_summary |-> fc.data_summary,
                      predictions |->
                          [i \in 1..Len(sorted) |->
                              PredictionItem(p, fc.columns, sorted[i])],
                      model_info |->
                          [fc.model_info EXCEPT
                              !.algorithm = SquashAlgorithm(fc.model_info.algorithm)]]]

\* PredictionPipeline.run(records)
run(p, df, eng) ==
    LET prep == Prepare(p, df)
    IN  IF prep.err # NoError THEN prep ELSE Forecast(p, prep, eng)

(***************************************************************************)
(* Configuration and the pipeline the Dispatcher builds.                   *)
(***************************************************************************)
\* Config.MIN_DATA_POINTS, the default of the environment
MIN_DATA_POINTS == 30

\* routes.predict: build_pipeline(prediction_frequency = aggregation_level =
\* the request's frequency, ...); non_negative keeps its default, True
DispatchPipeline(prediction_frequency, prediction_period, confidence_interval) ==
    build_pipeline(prediction_frequency, prediction_frequency, prediction_period,
                   confidence_interval, MIN_DATA_POINTS, TRUE)

(***************************************************************************)
(* Inputs.                                                                 *)
(***************************************************************************)
RECURSIVE SeqsUpTo(_, _)
SeqsUpTo(S, n) ==
    IF n = 0 THEN {<< >>}
    ELSE LET shorter == SeqsUpTo(S, n - 1)
         IN  shorter \cup {Append(q, x) : q \in {r \in shorter : Len(r) = n - 1}, x \in S}

\* The days of a request's rows, by frequency.  Weekly: Mon 2024-01-01,
\* Wed 01-03, Mon 01-08 and Mon 2024-07-22 (29 weeks after the first).
\* Monthly: 2024-01-01, 01-03, 2024-02-15 and 2026-06-01 (29 months after).
Days(frequency) ==
    IF frequency = "weekly" THEN {0, 2, 7, 203} ELSE {0, 2, 45, 882}

Values == {1, 9}

\* a row: its date cell and its target cell
RowChoices(frequency) ==
    {<<DateCell(d), NumCell(5)>> : d \in Days(frequency)}
        \cup {<<StrCell, NumCell(1)>>, <<DateCell(0), NanCell>>}

\* the data lists of the pipeline specification: 1..MaxRows rows under the
\* headers date, sales or Sales, TARIH (other casing, other order)
PipeFrames(frequency) ==
    LET lists == SeqsUpTo(RowChoices(frequency), MaxRows) \ {<< >>}
    IN  {[columns |-> <<"date", "sales">>, rows |-> l] : l \in lists}
          \cup {[columns |-> <<"Sales", "TARIH">>,
                 rows |-> [i \in 1..Len(l) |-> <<l[i][2], l[i][1]>>]] : l \in lists}

\* what the engine may predict for one future period (the last triple is
\* out of order: the engine promises no ordering to the model)
EngineRows ==
    {[yhat_lower |-> t[1], yhat |-> t[2], yhat_upper |-> t[3]] :
        t \in {<<0 - 3, 0 - 1, 2>>, <<1, 2, 3>>, <<2, 1, 0>>}}

\* the outcomes of the engine for a horizon of n periods
Engines(n) ==
    {[fails |-> FALSE, rows |-> r] : r \in {q \in SeqsUpTo(EngineRows, n) : Len(q) = n}}
        \cup {[fails |-> TRUE, rows |-> << >>]}

\* The days of the normalized points of the preparation specification.
\* Weekly: Mon 01-01, Wed 01-03, Mon 01-08, Wed 01-10, Mon 01-22, Mon 02-19.
\* Monthly: 2024-01-01, 01-03, 02-01, 02-15, 04-10, 08-07.
PointDays(level) ==
    IF level = "monthly" THEN {0, 2, 31, 45, 100, 220} ELSE {0, 2, 7, 9, 21, 49}

\* normalized points as normalize_schema leaves them: ascending in ds
NormalizedPoints(level) ==
    {q \in SeqsUpTo([ds : PointDays(level), y : Values], MaxPoints) :
        \A i \in 1..(Len(q) - 1) : q[i].ds <= q[i + 1].ds}

(***************************************************************************)
(* Dispatcher: POST /predict.  JSON values of the request body.            *)
(***************************************************************************)
JNull == [k |-> "null", n |-> 0, s |-> ""]
JBool(b) == [k |-> "bool", n |-> IF b THEN 1 ELSE 0, s |-> ""]
JInt(n) == [k |-> "int", n |-> n, s |-> ""]
JFloat(n) == [k |-> "float", n |-> n, s |-> ""]
JStr(s) == [k |-> "str", n |-> 0, s |-> s]
\* the one-element list [s]
JList(s) == [k |-> "list", n |-> 1, s |-> s]

\* the "data" field: missing, a string, or a list of records
DataNull == [k |-> "null", frame |-> [columns |-> << >>, rows |-> << >>]]
DataStr == [k |-> "str", frame |-> [columns |-> << >>, rows |-> << >>]]
DataList(frame) == [k |-> "list", frame |-> frame]

\* Python truth value: if callback_url, not prediction_frequency
Truthy(v) ==
    CASE v.k = "null" -> FALSE
      [] v.k = "str" -> v.s # ""
      [] OTHER -> v.n # 0

\* isinstance(v, int): bool is a subclass of int
IsInstanceInt(v) == v.k \in {"int", "bool"}

\* what requests.post can open a connection to
IsUrl(v) == v.k = "str" /\ v.s = "http://cb"

CALLBACK_KEYS == {"callback", "webhook", "notify", "async", "background"}

NoId == [prefix |-> "", digits |-> 0]

\* "req_" + str(int(time.time()))
RequestId(now) == [prefix |-> "req_", digits |-> now]

NoResponse == [status |-> 0, error |-> "", state |-> "", request_id |-> NoId]

_bad_request(error_code) == [status |-> 400, error |-> error_code, state |-> "", request_id |-> NoId]

_unprocessable(error_code) == [status |-> 422, error |-> error_code, state |-> "", request_id |-> NoId]

\* an exception no except clause of the handler catches: the framework's 500
Unhandled(exc) == [status |-> 500, error |-> exc, state |-> "", request_id |-> NoId]

\* the synchronous answer to a pipeline outcome
SyncResponse(err) ==
    IF err = NoError THEN [status |-> 200, error |-> "", state |-> "", request_id |-> NoId]
    ELSE IF err.exc = "ValueError" THEN _unprocessable("insufficient_data")
    ELSE [status |-> 500, error |-> "internal_error", state |-> "", request_id |-> NoId]

\* response_data of an acknowledged request
Processing(request_id) == [status |-> 200, error |-> "", state |-> "processing", request_id |-> request_id]

\* the parsing and the validations of predict: the response that turns the
\* request down, NoResponse when it passes
Validate(req) ==
    IF req.body = "invalid" THEN _bad_request("bad_request")
    ELSE IF req.body # "object" THEN Unhandled("AttributeError")
    ELSE IF req.data.k # "list" \/ Len(req.data.frame.rows) = 0
    THEN _bad_request("missing_parameter")
    ELSE IF \/ req.prediction_period.k = "null"
            \/ ~IsInstanceInt(req.prediction_period)
            \/ req.prediction_period.n <= 0
    THEN _bad_request("missing_parameter")
    ELSE IF ~Truthy(req.prediction_frequency) THEN _bad_request("missing_parameter")
    ELSE IF req.prediction_frequency.k = "list" THEN Unhandled("TypeError")
    ELSE IF ~(req.prediction_frequency.k = "str"
                /\ req.prediction_frequency.s \in {"weekly", "monthly"})
    THEN _bad_request("missing_parameter")
    ELSE NoResponse

\* the value of the first key of the payload that is a callback key
RECURSIVE CallbackUrl(_)
CallbackUrl(items) ==
    IF items = << >> THEN JNull
    ELSE IF Lower(Head(items).key) \in CALLBACK_KEYS THEN Head(items).value
    ELSE CallbackUrl(Tail(items))

\* the pipeline predict and send_callback build for a request that passed
RequestPipeline(req) ==
    DispatchPipeline(req.prediction_frequency.s, req.prediction_period.n,
                     req.confidence_interval)

\* one outbound requests.post
Post(thread, kind, delivered) ==
    [url |-> thread.callback_url, kind |-> kind,
     x_request_id |-> thread.request_id,
     payload_request_id |-> IF kind = "callback_failed" THEN thread.request_id ELSE NoId,
     delivered |-> delivered]

(***************************************************************************)
(* Requests.                                                               *)
(***************************************************************************)
\* 30 weekly or monthly periods from the first row to the last
OkFrame(frequency) ==
    [columns |-> <<"date", "sales">>,
     rows |-> <<<<DateCell(0), NumCell(5)>>,
                <<DateCell(IF frequency = "weekly" THEN 203 ELSE 882), NumCell(5)>>>>]

\* one period
ShortFrame == [columns |-> <<"Sales", "TARIH">>, rows |-> <<<<NumCell(5), DateCell(0)>>>>]

\* two weekly periods, one monthly
TwoWeeksFrame ==
    [columns |-> <<"date", "sales">>,
     rows |-> <<<<DateCell(0), NumCell(5)>>, <<DateCell(7), NumCell(9)>>>>]

\* no column a target alias names
NoTargetFrame == [columns |-> <<"date", "x">>, rows |-> <<<<DateCell(0), NumCell(5)>>>>]

\* no column a date alias names, and the only column that parses as a date
\* is the target
NoDateFrame == [columns |-> <<"when", "sales">>, rows |-> <<<<StrCell, NumCell(5)>>>>]

\* [{}]
EmptyFrame == [columns |-> << >>, rows |-> <<<< >>>>]

Item(key, value) == [key |-> key, value |-> value]

BaseRequest(frequency) ==
    [body |-> "object",
     data |-> DataList(OkFrame(frequency)),
     prediction_period |-> JInt(1),
     prediction_frequency |-> JStr(frequency),
     confidence_interval |-> FALSE,
     extra |-> << >>]

\* payloads with one field other than in the base request
DataChoices ==
    {DataNull, DataStr, DataList([columns |-> << >>, rows |-> << >>]),
     DataList(ShortFrame), DataList(TwoWeeksFrame), DataList(NoTargetFrame),
     DataList(NoDateFrame), DataList(EmptyFrame)}

PeriodChoices ==
    {JNull, JInt(0), JInt(0 - 1), JBool(TRUE), JBool(FALSE), JStr("1"), JFloat(1)}

FrequencyChoices == {JNull, JStr(""), JStr("daily"), JList("weekly"), JInt(7)}

ExtraChoices ==
    {<<Item("webhook", JStr("http://cb"))>>,
     <<Item("WebHook", JStr("http://cb"))>>,
     <<Item("async", JBool(TRUE))>>,
     <<Item("ASYNC", JBool(FALSE))>>,
     <<Item("notify", JStr("yes"))>>,
     <<Item("callback", JStr("")), Item("webhook", JStr("http://cb"))>>,
     <<Item("callback_url", JStr("http://cb"))>>}

Variations(base) ==
    {base, [base EXCEPT !.confidence_interval = TRUE]}
        \cup {[base EXCEPT !.data = d] : d \in DataChoices}
        \cup {[base EXCEPT !.prediction_period = p] : p \in PeriodChoices}
        \cup {[base EXCEPT !.prediction_frequency = f] : f \in FrequencyChoices}
        \cup {[base EXCEPT !.extra = e] : e \in ExtraChoices}

\* requests that carry a callback address and differ in one more field
WithWebhook(base) ==
    LET hooked == [base EXCEPT !.extra = <<Item("webhook", JStr("http://cb"))>>]
    IN  {[hooked EXCEPT !.data = DataNull],
         [hooked EXCEPT !.data = DataList(ShortFrame)],
         [hooked EXCEPT !.prediction_period = JBool(TRUE)],
         [hooked EXCEPT !.prediction_period = JInt(0)],
         [hooked EXCEPT !.prediction_frequency = JStr("daily")]}

Requests ==
    Variations(BaseRequest("weekly")) \cup WithWebhook(BaseRequest("weekly"))
        \cup {BaseRequest("monthly"),
              [BaseRequest("monthly") EXCEPT !.data = DataList(TwoWeeksFrame)],
              [BaseRequest("weekly") EXCEPT !.body = "invalid"],
              [BaseRequest("weekly") EXCEPT !.body = "array"]}

NoRequest == [BaseRequest("weekly") EXCEPT !.body = "none"]

(***************************************************************************)
(* State.                                                                  *)
(***************************************************************************)
VARIABLES
    \* the pipeline run last: its input frame, its configuration, how far it
    \* is, what the run left behind, and a second Sanitizer pass
    records, pipeline, stage, trace, resan,
    \* the Dispatcher: time.time() in whole seconds, the request handled
    \* last and its response, the number of requests handled, the background
    \* threads in the order they were started, and whether a new thread
    \* starts with a copy of its creator's context variables
    clock, request, response, handled, threads, thread_inherit_context

pipe_vars == <<records, pipeline, stage, trace, resan>>

disp_vars == <<clock, request, response, handled, threads, thread_inherit_context>>

vars == <<records, pipeline, stage, trace, resan, clock, request, response, handled, threads, thread_inherit_context>>

\* the Dispatcher before its first request
DispIdle ==
    /\ clock = 0
    /\ request = NoRequest
    /\ response = NoResponse
    /\ handled = 0
    /\ threads = << >>
    /\ thread_inherit_context = FALSE

NoRecords == [columns |-> << >>, rows |-> << >>]

NoTrace == Stopped(NoError, << >>, << >>, << >>, 1)

NoResan == [err |-> NoError, rows |-> << >>, mult |-> 1]

(***************************************************************************)
(* The pipeline specification: a pipeline built as the Dispatcher builds   *)
(* it for a valid request (or with non-negative mode switched off), run    *)
(* once on the request's data.                                             *)
(***************************************************************************)
InitPipe ==
    /\ \E frequency \in {"weekly", "monthly"}, period \in 1..MaxPeriod,
          confidence \in BOOLEAN, non_negative \in BOOLEAN :
          /\ pipeline = [DispatchPipeline(frequency, period, confidence)
                            EXCEPT !.non_negative = non_negative]
          /\ records \in PipeFrames(frequency)
    /\ stage = "built"
    /\ trace = NoTrace
    /\ resan = NoResan
    /\ DispIdle

\* PredictionPipeline.run; the engine's outcome matters only when the run
\* reaches the Forecaster
PipeRun ==
    /\ stage = "built"
    /\ \E prep \in {Prepare(pipeline, records)} :
          IF prep.err # NoError
          THEN trace' = prep
          ELSE \E eng \in Engines(pipeline.prediction_period) :
                   trace' = Forecast(pipeline, prep, eng)
    /\ stage' = "ran"
    /\ UNCHANGED <<records, pipeline, resan, disp_vars>>

NextPipe == PipeRun

SpecPipe == InitPipe /\ [][NextPipe]_vars

(***************************************************************************)
(* The preparation specification: the Aggregator and the Sanitizer applied *)
(* to normalized points, and the Sanitizer applied to its own output.      *)
(***************************************************************************)
InitPrep ==
    /\ \E level \in {"weekly", "monthly", "daily"} :
          /\ pipeline = build_pipeline(level, level, 1, FALSE, MIN_DATA_POINTS, TRUE)
          /\ \E points \in NormalizedPoints(level) :
                trace = Stopped(NoError, points, << >>, << >>, 1)
    /\ records = NoRecords
    /\ stage = "normalized"
    /\ resan = NoResan
    /\ DispIdle

Aggregate ==
    /\ stage = "normalized"
    /\ \E df_agg \in {aggregate_time_series(trace.norm, pipeline.aggregation_level,
                                            pipeline.weekly_rule, pipeline.monthly_rule)} :
          trace' = [trace EXCEPT !.err = df_agg.err, !.agg = df_agg.rows]
    /\ stage' = "aggregated"
    /\ UNCHANGED <<records, pipeline, resan, disp_vars>>

Sanitize ==
    /\ stage = "aggregated"
    /\ trace.err = NoError
    /\ \E df_clean \in {sanitize_outliers_and_missing(trace.agg)} :
          trace' = [trace EXCEPT !.err = df_clean.err, !.clean = df_clean.rows,
                                 !.mult = df_clean.mult]
    /\ stage' = "clean"
    /\ UNCHANGED <<records, pipeline, resan, disp_vars>>

Resanitize ==
    /\ stage = "clean"
    /\ trace.err = NoError
    /\ resan' = sanitize_outliers_and_missing(trace.clean)
    /\ stage' = "resanitized"
    /\ UNCHANGED <<records, pipeline, trace, disp_vars>>

NextPrep == Aggregate \/ Sanitize \/ Resanitize

SpecPrep == InitPrep /\ [][NextPrep]_vars

(***************************************************************************)
(* The Dispatcher specification: requests arrive one after the other, the  *)
(* clock advances, and the background threads of acknowledged requests run *)
(* between them.                                                           *)
(***************************************************************************)
NoPipeline == build_pipeline("", "", 0, FALSE, 0, FALSE)

Init ==
    /\ records = NoRecords
    /\ pipeline = NoPipeline
    /\ stage = "idle"
    /\ trace = NoTrace
    /\ resan = NoResan
    /\ clock = 0
    /\ request = NoRequest
    /\ response = NoResponse
    /\ handled = 0
    /\ threads = << >>
    /\ thread_inherit_context \in BOOLEAN

\* a handler that builds no pipeline
NoRun ==
    /\ records' = NoRecords
    /\ pipeline' = NoPipeline
    /\ trace' = NoTrace

\* pipeline.run(data) of the request req, by the handler or by a thread
Runs(req, to) ==
    /\ records' = req.data.frame
    /\ pipeline' = RequestPipeline(req)
    /\ stage' = to
    /\ \E prep \in {Prepare(RequestPipeline(req), req.data.frame)} :
          IF prep.err # NoError
          THEN trace' = prep
          ELSE \E eng \in Engines(req.prediction_period.n) :
                   trace' = Forecast(RequestPipeline(req), prep, eng)

\* predict: one POST /predict from the body to the response
predict ==
    /\ handled < MaxRequests
    /\ handled' = handled + 1
    /\ \E req \in Requests :
          /\ request' = req
          /\ IF Validate(req) # NoResponse
             THEN /\ response' = Validate(req)
                  /\ stage' = "rejected"
                  /\ NoRun
                  /\ UNCHANGED threads
             ELSE IF Truthy(CallbackUrl(req.extra))
             THEN /\ response' = Processing(RequestId(clock))
                  /\ threads' = Append(threads,
                                       [request |-> req,
                                        callback_url |-> CallbackUrl(req.extra),
                                        request_id |-> RequestId(clock),
                                        pc |-> "started",
                                        headers |-> FALSE,
                                        posts |-> << >>])
                  /\ stage' = "acknowledged"
                  /\ NoRun
             ELSE /\ Runs(req, "ran")
                  /\ response' = SyncResponse(trace'.err)
                  /\ UNCHANGED threads
    /\ UNCHANGED <<resan, clock, thread_inherit_context>>

\* the try block of send_callback: headers, pipeline, run, POST of the result
send_callback ==
    \E i \in 1..Len(threads) :
        /\ threads[i].pc = "started"
        /\ IF ~thread_inherit_context
           THEN \* current_app outside an application context: RuntimeError
                /\ threads' = [threads EXCEPT ![i].pc = "except"]
                /\ UNCHANGED <<records, pipeline, stage, trace>>
           ELSE /\ Runs(threads[i].request, "thread_ran")
                /\ IF trace'.err # NoError \/ ~IsUrl(threads[i].callback_url)
                   THEN threads' = [threads EXCEPT ![i].pc = "except", ![i].headers = TRUE]
                   ELSE \E delivered \in BOOLEAN :
                           threads' = [threads EXCEPT
                               ![i].pc = IF delivered THEN "done" ELSE "except",
                               ![i].headers = TRUE,
                               ![i].posts = Append(@, Post(threads[i], "result", delivered))]
        /\ UNCHANGED <<resan, clock, request, response, handled, thread_inherit_context>>

\* the except block of send_callback: POST of error_data, failures swallowed
send_callback_except ==
    \E i \in 1..Len(threads) :
        /\ threads[i].pc = "except"
        /\ IF ~threads[i].headers \/ ~IsUrl(threads[i].callback_url)
           THEN \* NameError on headers, or requests raises on the address
                threads' = [threads EXCEPT ![i].pc = "done"]
           ELSE \E delivered \in BOOLEAN :
                   threads' = [threads EXCEPT
                       ![i].pc = "done",
                       ![i].posts = Append(@, Post(threads[i], "callback_failed", delivered))]
        /\ UNCHANGED <<pipe_vars, clock, request, response, handled, thread_inherit_context>>

\* a second passes
Tick ==
    /\ clock < MaxClock
    /\ clock' = clock + 1
    /\ UNCHANGED <<pipe_vars, request, response, handled, threads, thread_inherit_context>>

Next == predict \/ send_callback \/ send_callback_except \/ Tick

Spec == Init /\ [][Next]_vars

\* CLAIMS

(***************************************************************************)
(* Shorthands of the claims about the Dispatcher.                          *)
(***************************************************************************)
\* the three required fields as the specification asks for them
ValidFields(req) ==
    /\ req.body = "object"
    /\ req.data.k = "list" /\ Len(req.data.frame.rows) > 0
    /\ req.prediction_period.k = "int" /\ req.prediction_period.n > 0
    /\ req.prediction_frequency.k = "str"
    /\ req.prediction_frequency.s \in {"weekly", "monthly"}

\* a body that parses and has one of the three fields missing or unusable
InvalidFields(req) == req.body \in {"object", "array"} /\ ~ValidFields(req)

HasCallbackKey(req) ==
    \E i \in 1..Len(req.extra) :
        req.extra[i].key \in
            {"callback", "webhook", "notify", "async", "background",
             "WebHook", "ASYNC"}

\* the thread made an outbound POST that carries its request_id
Posted(thread) ==
    \E j \in 1..Len(thread.posts) :
        /\ thread.posts[j].url = thread.callback_url
        /\ thread.posts[j].kind \in {"result", "callback_failed"}
        /\ thread.posts[j].x_request_id = thread.request_id

(***************************************************************************)
(* C1: every valid request that carries one of the callback keys (any      *)
(* casing) is answered at once with 200, status "processing" and a         *)
(* request_id req_<digits>, and its background thread does not end before  *)
(* it has made an outbound POST to the callback address, of the pipeline   *)
(* result or of a callback_failed payload, tagged with that request_id.    *)
(* The code does not keep this.                                            *)
(***************************************************************************)
C1_CallbackAcknowledgedAndPosted ==
    /\ (handled > 0 /\ ValidFields(request) /\ HasCallbackKey(request)) =>
          /\ response.status = 200
          /\ response.state = "processing"
          /\ response.request_id.prefix = "req_"
    /\ \A i \in 1..Len(threads) :
          (ValidFields(threads[i].request) /\ threads[i].pc = "done")
              => Posted(threads[i])

(***************************************************************************)
(* C2: on the synchronous path only the insufficient-data condition (fewer *)
(* points than the minimum after aggregation) is answered with 422         *)
(* insufficient_data; every other pipeline failure, ColumnNotFound among   *)
(* them, is answered with 500 internal_error.  The code does not keep      *)
(* this.                                                                   *)
(***************************************************************************)
C2_Only422IsInsufficientData ==
    stage = "ran" =>
        /\ response.status = 422 <=> trace.err = Raise("ValueError", "min_points")
        /\ trace.err \notin {NoError, Raise("ValueError", "min_points")}
              => (response.status = 500 /\ response.error = "internal_error")

(***************************************************************************)
(* C3: every request whose data is absent, not a list or empty, whose      *)
(* prediction_period is absent or not a positive integer count, or whose   *)
(* prediction_frequency is absent or not weekly/monthly, is answered with  *)
(* 400 missing_parameter, no pipeline is built or run for it and no        *)
(* background thread is started for it.  The code does not keep this.      *)
(***************************************************************************)
C3_InvalidFieldsRejected ==
    /\ (handled > 0 /\ InvalidFields(request)) =>
          /\ response.status = 400
          /\ response.error = "missing_parameter"
          /\ stage # "ran"
    /\ \A i \in 1..Len(threads) : ~InvalidFields(threads[i].request)


(***************************************************************************)
(* Shorthands of the claims.                                               *)
(***************************************************************************)
\* the rule the run aggregated with
AggRule == IF pipeline.aggregation_level = "weekly" THEN pipeline.weekly_rule ELSE pipeline.monthly_rule

ValidLevel == pipeline.aggregation_level \in {"weekly", "monthly"}

Aggregated == stage \in {"aggregated", "clean", "resanitized"} /\ ValidLevel

\* the run got a series back from the Sanitizer
SanitizerReturned == stage = "ran" /\ trace.err.msg \in {"none", "min_points", "engine"}

Succeeded == stage = "ran" /\ trace.result.success

OrderedRow(row) == row.yhat_lower <= row.yhat /\ row.yhat <= row.yhat_upper

HasBounds(item) == {"confidence_lower", "confidence_upper"} \subseteq DOMAIN item

\* the points of the normalized series that fall in [from, to)
PointsIn(from, to) == {j \in 1..Len(trace.norm) : from <= trace.norm[j].ds /\ trace.norm[j].ds < to}

RECURSIVE SumPoints(_)
SumPoints(J) ==
    IF J = {} THEN 0
    ELSE LET j == CHOOSE k \in J : TRUE IN trace.norm[j].y + SumPoints(J \ {j})

(***************************************************************************)
(* C4: whenever the series that comes out of aggregation and sanitizing    *)
(* has fewer than min_data_points points, run fails with the               *)
(* insufficient-data condition and the Forecaster is not invoked, however  *)
(* many raw rows there were; the Forecaster is only invoked on a clean     *)
(* series of at least min_data_points points.                              *)
(***************************************************************************)
C4_MinimumAfterAggregation ==
    /\ (SanitizerReturned /\ Len(trace.clean) < pipeline.min_data_points)
          => (trace.err = Raise("ValueError", "min_points") /\ ~trace.engine_called)
    /\ (stage = "ran" /\ trace.engine_called)
          => (SanitizerReturned /\ Len(trace.clean) >= pipeline.min_data_points)

\* two raw rows that aggregate to a single bucket are turned down
C4_Witness ==
    /\ SanitizerReturned
    /\ Len(records.rows) > Len(trace.clean)
    /\ Len(trace.clean) = 1
    /\ trace.err.msg = "min_points"

(***************************************************************************)
(* C5: for every input the Aggregator accepts (level weekly or monthly),   *)
(* every output bucket lies on the anchor grid (a Monday for weekly, the   *)
(* first day of a month for monthly) and the buckets are strictly          *)
(* increasing in ds, so no ds occurs twice.                                *)
(***************************************************************************)
C5_BucketsOnAnchorGrid ==
    Aggregated =>
        /\ \A i \in 1..Len(trace.agg) :
              IF pipeline.aggregation_level = "weekly"
              THEN trace.agg[i].ds % 7 = 0
              ELSE CivilDate(trace.agg[i].ds).d = 1
        /\ \A i \in 1..(Len(trace.agg) - 1) : trace.agg[i].ds < trace.agg[i + 1].ds

\* several points, two of them in one bucket, and a bucket without points
C5_Witness ==
    /\ Aggregated
    /\ Len(trace.norm) = 3
    /\ Len(trace.agg) >= 3
    /\ \E i \in 1..Len(trace.agg) : PointsIn(trace.agg[i].ds, trace.agg[i].ds + 1) = {}
    /\ \E j \in 1..2 : BucketLabel(AggRule, trace.norm[j].ds)
                          = BucketLabel(AggRule, trace.norm[j + 1].ds)

(***************************************************************************)
(* C6: running the Sanitizer on its own output is a no-op: the second pass *)
(* adds no rows and changes no value.                                      *)
(***************************************************************************)
SamePass ==
    /\ resan.err = NoError
    /\ Len(resan.rows) = Len(trace.clean)
    /\ \A i \in 1..Len(resan.rows) : resan.rows[i].ds = trace.clean[i].ds

SameValues ==
    \A i \in 1..Len(resan.rows) : resan.rows[i].y = resan.mult * trace.clean[i].y

\* the claim as stated, which the code does not keep
C6_Idempotent == stage = "resanitized" => (SamePass /\ SameValues)

\* C6, amended: on every aggregated series the Sanitizer returns for, the
\* second pass returns too, adds no rows and changes no ds; it changes no
\* value when the number of points is not a multiple of 4.  (With 4k points
\* both quartiles interpolate three quarters of the way towards the
\* neighbour on the outer side, which the first pass may have clipped.)
C6_IdempotentOffMultiplesOf4 ==
    stage = "resanitized" =>
        /\ SamePass
        /\ (Len(trace.clean) % 4 # 0 => SameValues)

\* a series of five points of which the first pass clipped one
C6_Witness ==
    /\ stage = "resanitized"
    /\ Len(trace.clean) = 5
    /\ \E i \in 1..5 : trace.clean[i].y # trace.mult * trace.agg[i].y

(***************************************************************************)
(* C7: in non-negative mode every prediction of the result has             *)
(* predicted_value >= 0, and confidence_lower and confidence_upper, when   *)
(* present, are each >= 0, whatever the engine predicted.                  *)
(***************************************************************************)
C7_NonNegative ==
    (Succeeded /\ pipeline.non_negative) =>
        \A i \in 1..Len(trace.result.predictions) :
            LET item == trace.result.predictions[i]
            IN  /\ item.predicted_value >= 0
                /\ HasBounds(item) =>
                      (item.confidence_lower >= 0 /\ item.confidence_upper >= 0)

\* the engine predicted a negative value with a negative lower bound
C7_Witness ==
    /\ Succeeded
    /\ pipeline.non_negative
    /\ pipeline.return_confidence
    /\ \E i \in 1..Len(trace.forecast) :
          trace.forecast[i].yhat < 0 /\ trace.forecast[i].yhat_lower < 0

(***************************************************************************)
(* C8: when confidence bounds are requested every prediction carries       *)
(* confidence_lower and confidence_upper, and confidence_lower <=          *)
(* predicted_value <= confidence_upper for every engine row with           *)
(* yhat_lower <= yhat <= yhat_upper, also after the flooring at zero; when *)
(* they are not requested no prediction carries either key.                *)
(***************************************************************************)
C8_ConfidenceBounds ==
    Succeeded =>
        \A i \in 1..Len(trace.result.predictions) :
            LET item == trace.result.predictions[i]
            IN  IF pipeline.return_confidence
                THEN /\ HasBounds(item)
                     /\ OrderedRow(trace.forecast[i]) =>
                           /\ item.confidence_lower <= item.predicted_value
                           /\ item.predicted_value <= item.confidence_upper
                ELSE DOMAIN item = {"date", "predicted_value"}

\* bounds requested, an ordered row that straddles zero, flooring on
C8_Witness ==
    /\ Succeeded
    /\ pipeline.return_confidence
    /\ pipeline.non_negative
    /\ \E i \in 1..Len(trace.forecast) :
          /\ OrderedRow(trace.forecast[i])
          /\ trace.forecast[i].yhat < 0
          /\ trace.forecast[i].yhat_upper > 0

(***************************************************************************)
(* C9: each bucket's ds is the start of the period it sums: every          *)
(* normalized point t is counted in exactly one bucket, the one with       *)
(* ds <= t < ds + one period, and a bucket's y is the sum of those points. *)
(***************************************************************************)
C9_BucketStartsItsPeriod ==
    Aggregated =>
        /\ \A j \in 1..Len(trace.norm) :
              Cardinality({i \in 1..Len(trace.agg) :
                  j \in PointsIn(trace.agg[i].ds, NextAnchor(AggRule, trace.agg[i].ds))}) = 1
        /\ \A i \in 1..Len(trace.agg) :
              trace.agg[i].y =
                  SumPoints(PointsIn(trace.agg[i].ds, NextAnchor(AggRule, trace.agg[i].ds)))

(***************************************************************************)
(* C10: the forecast continues the historical grid of the request: future  *)
(* periods are generated with the rule the request was aggregated with,    *)
(* there is one point per horizon period, each strictly after the last     *)
(* historical bucket and on the anchor grid, each the next anchor point    *)
(* after the one before, in ascending order, and the result lists their    *)
(* dates in that order.                                                    *)
(***************************************************************************)
C10_ForecastContinuesGrid ==
    Succeeded =>
        LET last == trace.agg[Len(trace.agg)].ds
            fc == trace.forecast
        IN  /\ pipeline.prediction_frequency = pipeline.aggregation_level
            /\ Len(fc) = pipeline.prediction_period
            /\ Len(trace.result.predictions) = Len(fc)
            /\ \A i \in 1..Len(fc) :
                  /\ fc[i].ds > last
                  /\ IF pipeline.aggregation_level = "weekly"
                     THEN fc[i].ds % 7 = 0
                     ELSE CivilDate(fc[i].ds).d = 1
                  /\ fc[i].ds = NextAnchor(AggRule, IF i = 1 THEN last ELSE fc[i - 1].ds)
                  /\ trace.result.predictions[i].date = CivilDate(fc[i].ds)

\* a monthly request with a horizon of two periods
C10_Witness ==
    /\ Succeeded
    /\ pipeline.prediction_frequency = "monthly"
    /\ Len(trace.forecast) = 2

(***************************************************************************)
(* C11: a failed outbound callback call is swallowed and delivery is       *)
(* abandoned without retry: once an outbound call of a request's thread    *)
(* has failed (timeout or transport error), that thread makes no further   *)
(* outbound call, so a failed call is the last call of its thread.  The    *)
(* code does not keep this.                                                *)
(***************************************************************************)
C11_NoCallAfterFailedCall ==
    \A i \in 1..Len(threads) :
        \A j \in 1..Len(threads[i].posts) :
            ~threads[i].posts[j].delivered => j = Len(threads[i].posts)

(***************************************************************************)
(* C12: any two distinct asynchronous requests the Dispatcher acknowledges *)
(* get distinct request_id values, also when they are handled in quick     *)
(* succession, so a request_id names one request.  The code does not keep  *)
(* this.                                                                   *)
(***************************************************************************)
C12_RequestIdsDistinct ==
    \A i, j \in 1..Len(threads) :
        i # j => threads[i].request_id # threads[j].request_id

(***************************************************************************)
(* C13: the output of aggregate_time_series has every grid period between  *)
(* its first and its last bucket, a period without input points with       *)
(* y = 0.  So when the Sanitizer returns for an aggregated series, its     *)
(* reindex and forward/back fill add no row and change no value: the clean *)
(* series has the length and the ds of the aggregated series, and its      *)
(* values are the IQR clipping of the aggregated values, a period without  *)
(* observations entering the clipping as 0.                                *)
(***************************************************************************)
\* the normalized points the bucket ds sums under the rule of the run
PointsOfBucket(ds) ==
    {j \in 1..Len(trace.norm) :
        IF pipeline.aggregation_level = "weekly"
        THEN ds - 7 < trace.norm[j].ds /\ trace.norm[j].ds <= ds
        ELSE ds <= trace.norm[j].ds /\ trace.norm[j].ds < NextAnchor(AggRule, ds)}

C13_AggregateLeavesNoGap ==
    /\ Aggregated =>
          /\ \A i \in 1..(Len(trace.agg) - 1) :
                trace.agg[i + 1].ds = NextAnchor(AggRule, trace.agg[i].ds)
          /\ \A i \in 1..Len(trace.agg) :
                PointsOfBucket(trace.agg[i].ds) = {} => trace.agg[i].y = 0
    /\ (Aggregated /\ stage \in {"clean", "resanitized"} /\ trace.err = NoError) =>
          /\ Len(trace.clean) = Len(trace.agg)
          /\ \A i \in 1..Len(trace.clean) : trace.clean[i].ds = trace.agg[i].ds
          /\ trace.clean = IF Len(trace.agg) < 2 THEN trace.agg ELSE IqrClip(trace.agg)

\* a sanitized series with a period without points after a period with some
C13_Witness ==
    /\ Aggregated
    /\ stage = "clean"
    /\ trace.err = NoError
    /\ \E i \in 2..Len(trace.agg) :
          /\ PointsOfBucket(trace.agg[i].ds) = {}
          /\ trace.agg[i - 1].y # 0
          /\ trace.clean[i].y = 0

=============================================================================
